---- MODULE Spec2Model ----
(***************************************************************************)
(* Model of InfiniTAM/Engine/RosEngine.cpp (COMPILE_WITH_Ros branch).      *)
(*                                                                         *)
(* The parts of RosEngine are modelled each with its own specification     *)
(* over the same variables:                                                *)
(*   SpecSync  - rgbCallback / depthCallback against hasMoreImages and     *)
(*               getImages (the frame hand-off),                           *)
(*   SpecCalib - rgbCameraInfoCallback / depthCameraInfoCallback against   *)
(*               the constructor's wait loop,                              *)
(*   SpecMesh  - extractMeshToPcl, called on an engine whose mesh lives in *)
(*               host memory and on one whose mesh lives in CUDA memory,   *)
(*               both meshing the same scene,                              *)
(*   SpecExport - the frame hand-off with an export running next to it,    *)
(*   SpecDecode - the depth loop of getImages on one pixel,                *)
(*   SpecCalibFair, SpecSyncFair - SpecCalib and the hand-off on topics    *)
(*               that never run dry, with every thread running.            *)
(* Every statement of the C++ code that reads or writes shared state is a *)
(* step of its own, so that threads interleave between any two of them.    *)
(***************************************************************************)
EXTENDS Integers, Sequences, FiniteSets, TLC

\* ---------------------------------------------------------------- bounds
\* Image messages delivered per topic.
MaxFrames == 3
\* CameraInfo messages delivered per topic, and the distinct payloads.
MaxInfoMsgs == 2
MaxInfoVal == 2
\* Capacity of the mesh's triangle buffer (ITMMesh::noMaxTriangles).
MaxCap == 3
\* Calls of extractMeshToPcl per engine.
MaxCalls == 2

\* ----------------------------------------------------------------- state
Slots == {"rgb", "depth"}
Domains == {"cpu", "cuda"}

VARIABLES
    \* --- frame hand-off
    ready,            \* rgb_ready_ / depth_ready_
    data_available_,  \* data_available_
    mutex,            \* rgb_mutex_ / depth_mutex_: "free", "producer", "consumer"
    image,            \* cv_rgb_image_ / cv_depth_image_: id of the held frame, 0 = null
    cbpc,             \* position of rgbCallback / depthCallback
    cbmsg,            \* the msg argument of the running callback (frame id)
    delivered,        \* image messages delivered so far, per topic
    cpc,              \* position of the consumer (hasMoreImages / getImages)
    dest,             \* rgb_image / raw_depth_image: <<first half, second half>>
    acceptedId,       \* history: id of the last frame a callback admitted (line 84 / 94)
    acceptedAtRead,   \* history: acceptedId when the last getImages returned
    \* --- calibration
    info_ready,       \* rgb_info_ready_ / depth_info_ready_
    info,             \* rgb_info_ / depth_info_ (0 = never assigned)
    image_size,       \* image_size_rgb_ / image_size_depth_ (0 = never assigned)
    infopc,           \* position of the camera-info callback
    infomsg,          \* the msg argument of the running camera-info callback
    infoDelivered,    \* CameraInfo messages delivered so far, per topic
    recorded,         \* history: number of completed assignments of *_info_
    ctorpc,           \* position of the constructor
    calib,            \* this->calib intrinsics as built by the constructor
    \* --- mesh export
    scene,            \* main_engine_->GetScene(): what MeshScene will produce
    mesh,             \* main_engine_->GetMesh(), per engine
    handle,           \* which of main_engine_ / GetMesh() is null in this call
    out_cloud,        \* the out_cloud argument and the cloud it points to
    cpu_triangles,    \* what cpu_triangles points to: "none", "mesh", "temp"
    temp,             \* the buffer allocated at line 186
    rm_triangle_in_cuda_memory,
    fpc,              \* position of extractMeshToPcl
    fi,               \* the loop variable i of lines 210-223
    tempAllocs,       \* history: new at line 186
    tempFrees,        \* history: delete at line 226 of a line-186 buffer
    meshAtEntry,      \* history: the mesh when the current call was entered
    calls,            \* calls of extractMeshToPcl so far
    \* --- depth decoding
    data,             \* cv_depth_image_->image.data[2*i], [2*i + 1] of one pixel i
    raw_depth_infinitam,  \* raw_depth_infinitam[i] of that pixel
    dpc               \* position of the loop body of lines 135-139 for that pixel

syncVars == <<ready, data_available_, mutex, image, cbpc, cbmsg, delivered,
              cpc, dest, acceptedId, acceptedAtRead>>
calibVars == <<info_ready, info, image_size, infopc, infomsg, infoDelivered,
               recorded, ctorpc, calib>>
meshVars == <<scene, mesh, handle, out_cloud, cpu_triangles, temp,
              rm_triangle_in_cuda_memory, fpc, fi, tempAllocs, tempFrees,
              meshAtEntry, calls>>
pixelVars == <<data, raw_depth_infinitam, dpc>>
vars == <<syncVars, calibVars, meshVars, pixelVars>>

\* =================================================================
\* Frame hand-off
\* =================================================================

\* Constructor, lines 18-22: the member initialisers.
InitSync ==
    /\ ready = [s \in Slots |-> FALSE]
    /\ data_available_ = TRUE
    /\ mutex = [s \in Slots |-> "free"]
    /\ image = [s \in Slots |-> 0]
    /\ cbpc = [s \in Slots |-> "idle"]
    /\ cbmsg = [s \in Slots |-> 0]
    /\ delivered = [s \in Slots |-> 0]
    /\ cpc = "pollRgb"
    /\ dest = [s \in Slots |-> <<0, 0>>]
    /\ acceptedId = [s \in Slots |-> 0]
    /\ acceptedAtRead = [s \in Slots |-> 0]

\* A lock_guard that does not wait for the holder.
LockIgnored(m) == TRUE

\* std::lock_guard's constructor returns once the mutex is free (lines 83,
\* 93, 129, 142).
Lockable(m) == m = "free"

\* A callback that does not look at its ready flag.
SlotAlwaysWritable(rdy) == TRUE

\* Lines 82 / 92, first operand: !rgb_ready_ (resp. !depth_ready_).
SlotWritable(rdy) == ~rdy

\* A callback that takes the gate for closed whatever it reads.
GateNeverOpen(gate) == FALSE

\* Lines 82 / 92, second operand: data_available_.
GateOpen(gate) == gate

\* A callback that stores its frame without raising the ready flag.
ReadyNotSet == FALSE

\* Lines 84 / 94: rgb_ready_ = true.
ReadyAfterWrite == TRUE

\* The callback is invoked with the next message of its topic and evaluates
\* the first operand of the condition at line 82 / 92.
CbBegin(s) ==
    /\ cbpc[s] = "idle"
    /\ delivered[s] < MaxFrames
    /\ delivered' = [delivered EXCEPT ![s] = @ + 1]
    /\ cbmsg' = [cbmsg EXCEPT ![s] = delivered[s] + 1]
    /\ cbpc' = [cbpc EXCEPT ![s] = IF SlotWritable(ready[s]) THEN "gate" ELSE "idle"]
    /\ UNCHANGED <<ready, data_available_, mutex, image, cpc, dest, acceptedId,
                   acceptedAtRead,
                   calibVars, meshVars, pixelVars>>

\* Second operand of the condition at line 82 / 92.
CbGate(s) ==
    /\ cbpc[s] = "gate"
    /\ cbpc' = [cbpc EXCEPT ![s] = IF GateOpen(data_available_) THEN "lock" ELSE "idle"]
    /\ UNCHANGED <<ready, data_available_, mutex, image, cbmsg, delivered, cpc,
                   dest, acceptedId, acceptedAtRead,
                   calibVars, meshVars, pixelVars>>

\* Lines 83 / 93: std::lock_guard on the slot's mutex.
CbLock(s) ==
    /\ cbpc[s] = "lock"
    /\ Lockable(mutex[s])
    /\ mutex' = [mutex EXCEPT ![s] = "producer"]
    /\ cbpc' = [cbpc EXCEPT ![s] = "flag"]
    /\ UNCHANGED <<ready, data_available_, image, cbmsg, delivered, cpc, dest,
                   acceptedId, acceptedAtRead,
                   calibVars, meshVars, pixelVars>>

\* Lines 84 / 94: the ready flag is set first.
CbFlag(s) ==
    /\ cbpc[s] = "flag"
    /\ ready' = [ready EXCEPT ![s] = ReadyAfterWrite]
    /\ acceptedId' = [acceptedId EXCEPT ![s] = cbmsg[s]]
    /\ cbpc' = [cbpc EXCEPT ![s] = "store"]
    /\ UNCHANGED <<data_available_, mutex, image, cbmsg, delivered, cpc, dest,
                   acceptedAtRead,
                   calibVars, meshVars, pixelVars>>

\* Lines 86-87 / 96-97: the converted image is stored second.
CbStore(s) ==
    /\ cbpc[s] = "store"
    /\ image' = [image EXCEPT ![s] = cbmsg[s]]
    /\ cbpc' = [cbpc EXCEPT ![s] = "unlock"]
    /\ UNCHANGED <<ready, data_available_, mutex, cbmsg, delivered, cpc, dest,
                   acceptedId, acceptedAtRead,
                   calibVars, meshVars, pixelVars>>

\* Lines 88 / 98: the guard leaves scope.
CbUnlock(s) ==
    /\ cbpc[s] = "unlock"
    /\ mutex' = [mutex EXCEPT ![s] = "free"]
    /\ cbpc' = [cbpc EXCEPT ![s] = "idle"]
    /\ UNCHANGED <<ready, data_available_, image, cbmsg, delivered, cpc, dest,
                   acceptedId, acceptedAtRead,
                   calibVars, meshVars, pixelVars>>

Callback(s) ==
    \/ CbBegin(s)
    \/ CbGate(s)
    \/ CbLock(s)
    \/ CbFlag(s)
    \/ CbStore(s)
    \/ CbUnlock(s)

rgbCallback == Callback("rgb")

\* The callback is invoked with the next message of a topic that never
\* runs dry: frames are numbered 1..MaxFrames round and round.
CbBeginAgain(s) ==
    /\ cbpc[s] = "idle"
    /\ delivered' = [delivered EXCEPT ![s] = (@ % MaxFrames) + 1]
    /\ cbmsg' = [cbmsg EXCEPT ![s] = (delivered[s] % MaxFrames) + 1]
    /\ cbpc' = [cbpc EXCEPT ![s] = IF SlotWritable(ready[s]) THEN "gate" ELSE "idle"]
    /\ UNCHANGED <<ready, data_available_, mutex, image, cpc, dest, acceptedId,
                   acceptedAtRead,
                   calibVars, meshVars, pixelVars>>

\* rgbCallback / depthCallback on a topic that never runs dry.
CallbackAgain(s) ==
    \/ CbBeginAgain(s)
    \/ CbGate(s)
    \/ CbLock(s)
    \/ CbFlag(s)
    \/ CbStore(s)
    \/ CbUnlock(s)

depthCallback == Callback("depth")

\* A poll that never fails, whatever the flag.
PollNeverFails(rdy) == FALSE

\* Line 165, each operand: !rgb_ready_, !depth_ready_.
PollFails(rdy) == ~rdy

\* Line 165, first operand.
PollRgb ==
    /\ cpc = "pollRgb"
    /\ cpc' = IF PollFails(ready["rgb"]) THEN "spin" ELSE "pollDepth"
    /\ UNCHANGED <<ready, data_available_, mutex, image, cbpc, cbmsg, delivered,
                   dest, acceptedId, acceptedAtRead,
                   calibVars, meshVars, pixelVars>>

\* Line 165, second operand; "enter" is the return of true, after which the
\* caller calls getImages.
PollDepth ==
    /\ cpc = "pollDepth"
    /\ cpc' = IF PollFails(ready["depth"]) THEN "spin" ELSE "enter"
    /\ UNCHANGED <<ready, data_available_, mutex, image, cbpc, cbmsg, delivered,
                   dest, acceptedId, acceptedAtRead,
                   calibVars, meshVars, pixelVars>>

\* Lines 166-167: ros::spinOnce(), return false; the caller polls again.
SpinOnce ==
    /\ cpc = "spin"
    /\ cpc' = "pollRgb"
    /\ UNCHANGED <<ready, data_available_, mutex, image, cbpc, cbmsg, delivered,
                   dest, acceptedId, acceptedAtRead,
                   calibVars, meshVars, pixelVars>>

hasMoreImages ==
    \/ PollRgb
    \/ PollDepth
    \/ SpinOnce

\* Line 126: data_available_ = false.
GateWhileDraining == FALSE

\* A read that leaves the flags as they are (both are true when it runs).
ReadyLeftSet == TRUE

\* Lines 158-159: rgb_ready_ = false; depth_ready_ = false.
ReadyAfterRead == FALSE

\* A read that never reopens the gate.
GateLeftClosed == FALSE

\* Line 160: data_available_ = true.
GateAfterRead == TRUE

\* Lines 123-125.
GiEnter ==
    /\ cpc = "enter"
    /\ cpc' = IF ~data_available_ THEN "pollRgb" ELSE "close"
    /\ UNCHANGED <<ready, data_available_, mutex, image, cbpc, cbmsg, delivered,
                   dest, acceptedId, acceptedAtRead,
                   calibVars, meshVars, pixelVars>>

\* Line 126.
GiClose ==
    /\ cpc = "close"
    /\ data_available_' = GateWhileDraining
    /\ cpc' = "lockDepth"
    /\ UNCHANGED <<ready, mutex, image, cbpc, cbmsg, delivered, dest, acceptedId,
                   acceptedAtRead,
                   calibVars, meshVars, pixelVars>>

\* Lines 129 / 142: the guards; both are held until getImages returns.
GiLock(s, at, next) ==
    /\ cpc = at
    /\ Lockable(mutex[s])
    /\ mutex' = [mutex EXCEPT ![s] = "consumer"]
    /\ cpc' = next
    /\ UNCHANGED <<ready, data_available_, image, cbpc, cbmsg, delivered, dest,
                   acceptedId, acceptedAtRead,
                   calibVars, meshVars, pixelVars>>

\* Lines 135-139 / 149-156: the copy loops, as a first and a second half of
\* the pixels; each half reads the image the slot holds at that moment.
GiCopy(s, half, at, next) ==
    /\ cpc = at
    /\ dest' = [dest EXCEPT ![s][half] = image[s]]
    /\ cpc' = next
    /\ UNCHANGED <<ready, data_available_, mutex, image, cbpc, cbmsg, delivered,
                   acceptedId, acceptedAtRead,
                   calibVars, meshVars, pixelVars>>

\* Lines 158 / 159.
GiClear(s, at, next) ==
    /\ cpc = at
    /\ ready' = [ready EXCEPT ![s] = ReadyAfterRead]
    /\ cpc' = next
    /\ UNCHANGED <<data_available_, mutex, image, cbpc, cbmsg, delivered, dest,
                   acceptedId, acceptedAtRead,
                   calibVars, meshVars, pixelVars>>

\* Line 160.
GiOpen ==
    /\ cpc = "open"
    /\ data_available_' = GateAfterRead
    /\ cpc' = "return"
    /\ UNCHANGED <<ready, mutex, image, cbpc, cbmsg, delivered, dest, acceptedId,
                   acceptedAtRead,
                   calibVars, meshVars, pixelVars>>

\* A guard that outlives getImages.
GuardKept == "consumer"

\* Line 161: what the destructor of a lock_guard leaves in its mutex.
GuardReleased == "free"

\* Line 161: rgb_guard and depth_guard leave scope; the pair read is complete.
GiReturn ==
    /\ cpc = "return"
    /\ mutex' = [s \in Slots |-> GuardReleased]
    /\ acceptedAtRead' = acceptedId
    /\ cpc' = "pollRgb"
    /\ UNCHANGED <<ready, data_available_, image, cbpc, cbmsg, delivered, dest,
                   acceptedId,
                   calibVars, meshVars, pixelVars>>

getImages ==
    \/ GiEnter
    \/ GiClose
    \/ GiLock("depth", "lockDepth", "copyDepth1")
    \/ GiCopy("depth", 1, "copyDepth1", "copyDepth2")
    \/ GiCopy("depth", 2, "copyDepth2", "lockRgb")
    \/ GiLock("rgb", "lockRgb", "copyRgb1")
    \/ GiCopy("rgb", 1, "copyRgb1", "copyRgb2")
    \/ GiCopy("rgb", 2, "copyRgb2", "clearRgb")
    \/ GiClear("rgb", "clearRgb", "clearDepth")
    \/ GiClear("depth", "clearDepth", "open")
    \/ GiOpen
    \/ GiReturn

\* The consumer is inside the pair read: data_available_ has been set to
\* false (line 126) and not yet back to true (line 160).
Draining ==
    cpc \in {"lockDepth", "copyDepth1", "copyDepth2", "lockRgb", "copyRgb1",
             "copyRgb2", "clearRgb", "clearDepth", "open"}

\* The slot holds a frame that getImages has already copied out in full.
Stale(s) == image[s] # 0 /\ dest[s] = <<image[s], image[s]>>

\* =================================================================
\* Calibration
\* =================================================================

\* A CameraInfo message: its payload stands for width, height and K.
InfoVals == 1..MaxInfoVal

\* Constructor, lines 20-21, and the default-constructed members.
InitCalib ==
    /\ info_ready = [s \in Slots |-> FALSE]
    /\ info = [s \in Slots |-> 0]
    /\ image_size = [s \in Slots |-> 0]
    /\ infopc = [s \in Slots |-> "idle"]
    /\ infomsg = [s \in Slots |-> 0]
    /\ infoDelivered = [s \in Slots |-> 0]
    /\ recorded = [s \in Slots |-> 0]
    /\ ctorpc = "waitRgb"
    /\ calib = [s \in Slots |-> <<0, 0>>]

\* A callback that flips the flag instead of setting it.
InfoReadyToggled(old) == ~old

\* Lines 106 / 115: rgb_info_ready_ = true, whatever it was.
InfoReadyAfter(old) == TRUE

\* The callback is invoked with a message; lines 103-104 / 112-113.  The
\* subscribers are locals of the constructor (lines 23-24), so no message is
\* dispatched once the constructor has returned.
InfoSize(s) ==
    /\ infopc[s] = "idle"
    /\ ctorpc # "done"
    /\ infoDelivered[s] < MaxInfoMsgs
    /\ \E m \in InfoVals :
        /\ infomsg' = [infomsg EXCEPT ![s] = m]
        /\ image_size' = [image_size EXCEPT ![s] = m]
    /\ infoDelivered' = [infoDelivered EXCEPT ![s] = @ + 1]
    /\ infopc' = [infopc EXCEPT ![s] = "info"]
    /\ UNCHANGED <<info_ready, info, recorded, ctorpc, calib,
                   syncVars, meshVars, pixelVars>>

\* Lines 105 / 114: rgb_info_ = *msg.
InfoStore(s) ==
    /\ infopc[s] = "info"
    /\ info' = [info EXCEPT ![s] = infomsg[s]]
    /\ recorded' = [recorded EXCEPT ![s] = @ + 1]
    /\ infopc' = [infopc EXCEPT ![s] = "flag"]
    /\ UNCHANGED <<info_ready, image_size, infomsg, infoDelivered, ctorpc, calib,
                   syncVars, meshVars, pixelVars>>

\* Lines 106 / 115.
InfoFlag(s) ==
    /\ infopc[s] = "flag"
    /\ info_ready' = [info_ready EXCEPT ![s] = InfoReadyAfter(info_ready[s])]
    /\ infopc' = [infopc EXCEPT ![s] = "idle"]
    /\ UNCHANGED <<info, image_size, infomsg, infoDelivered, recorded, ctorpc, calib,
                   syncVars, meshVars, pixelVars>>

CameraInfoCallback(s) ==
    \/ InfoSize(s)
    \/ InfoStore(s)
    \/ InfoFlag(s)

rgbCameraInfoCallback == CameraInfoCallback("rgb")

depthCameraInfoCallback == CameraInfoCallback("depth")

\* A loop condition that never holds: the constructor falls through at once.
NeverWaits(rdy) == FALSE

\* Line 46, each operand: !rgb_info_ready_, !depth_info_ready_.
StillWaiting(rdy) == ~rdy

\* Line 46, first operand.
CtorWaitRgb ==
    /\ ctorpc = "waitRgb"
    /\ ctorpc' = IF StillWaiting(info_ready["rgb"]) THEN "spin" ELSE "waitDepth"
    /\ UNCHANGED <<info_ready, info, image_size, infopc, infomsg, infoDelivered,
                   recorded, calib,
                   syncVars, meshVars, pixelVars>>

\* Line 46, second operand.
CtorWaitDepth ==
    /\ ctorpc = "waitDepth"
    /\ ctorpc' = IF StillWaiting(info_ready["depth"]) THEN "spin" ELSE "depthCalib"
    /\ UNCHANGED <<info_ready, info, image_size, infopc, infomsg, infoDelivered,
                   recorded, calib,
                   syncVars, meshVars, pixelVars>>

\* Lines 47-49: spinOnce and the one-second sleep, then the condition again.
CtorSpin ==
    /\ ctorpc = "spin"
    /\ ctorpc' = "waitRgb"
    /\ UNCHANGED <<info_ready, info, image_size, infopc, infomsg, infoDelivered,
                   recorded, calib,
                   syncVars, meshVars, pixelVars>>

\* Lines 64-66 / 67-69: intrinsics SetFrom the stored K and image size.
CtorCalib(s, at, next) ==
    /\ ctorpc = at
    /\ calib' = [calib EXCEPT ![s] = <<info[s], image_size[s]>>]
    /\ ctorpc' = next
    /\ UNCHANGED <<info_ready, info, image_size, infopc, infomsg, infoDelivered,
                   recorded,
                   syncVars, meshVars, pixelVars>>

RosEngine ==
    \/ CtorWaitRgb
    \/ CtorWaitDepth
    \/ CtorSpin
    \/ CtorCalib("depth", "depthCalib", "rgbCalib")
    \/ CtorCalib("rgb", "rgbCalib", "done")
   

\* Both rgb_info_ready_ and depth_info_ready_: the negation of line 46.
CalibrationComplete == info_ready["rgb"] /\ info_ready["depth"]

\* =================================================================
\* Mesh export
\* =================================================================

\* A triangle is named by a number: the scene's k-th triangle is k, and 0 is
\* a cleared buffer entry.  Vertex j of triangle t is the point <<t, j>>; the
\* three vertices of a cleared entry are all the origin.
TriVals == 0..MaxCap

ZeroPoint == <<0, 0>>

Vertex(t, j) == IF t = 0 THEN ZeroPoint ELSE <<t, j>>

Handles == {"ok", "noEngine", "noMesh"}

\* ITMMesh as constructed: a cleared buffer of noMaxTriangles entries in the
\* mesh's memory domain and no triangles.
NewMesh(domain) ==
    [triangles |-> [k \in 1..MaxCap |-> 0],
     live |-> TRUE,
     noTotalTriangles |-> 0,
     noMaxTriangles |-> MaxCap,
     memoryType |-> domain]

\* A default-constructed pcl::PointCloud.
NewCloud ==
    [null |-> FALSE, width |-> 0, height |-> 0, is_dense |-> TRUE, points |-> <<>>]

\* A default-constructed pcl::PointCloud<>::Ptr: it points to no cloud.
NullCloud == [NewCloud EXCEPT !.null = TRUE]

InitMeshWith(n) ==
    /\ scene = [noTriangles |-> n]
    /\ mesh = [i \in Domains |-> NewMesh(i)]
    /\ handle = [i \in Domains |-> "ok"]
    /\ out_cloud = [i \in Domains |-> NullCloud]
    /\ cpu_triangles = [i \in Domains |-> "none"]
    /\ temp = [i \in Domains |-> [data |-> <<>>, live |-> FALSE]]
    /\ rm_triangle_in_cuda_memory = [i \in Domains |-> FALSE]
    /\ fpc = [i \in Domains |-> "idle"]
    /\ fi = [i \in Domains |-> 0]
    /\ tempAllocs = [i \in Domains |-> 0]
    /\ tempFrees = [i \in Domains |-> 0]
    /\ meshAtEntry = [i \in Domains |-> NewMesh(i)]
    /\ calls = [i \in Domains |-> 0]

InitMesh == \E n \in 0..MaxCap : InitMeshWith(n)

\* ITMMeshingEngine::MeshScene (line 179): clears the mesh's buffer, writes
\* the scene's triangles from its start and sets noTotalTriangles.
MeshScene(m, sc) ==
    [m EXCEPT !.triangles = [k \in 1..m.noMaxTriangles |->
                                IF k <= sc.noTriangles THEN k ELSE 0],
              !.noTotalTriangles = sc.noTriangles]

\* ORUtils::MemoryBlock::SetFrom(source, CUDA_TO_CPU) (lines 188-190): every
\* element of the source block, in place order.
SetFrom(source) == [k \in 1..Len(source) |-> source[k]]

\* Line 185: the mesh lives in CUDA memory.
NeedsHostCopy(m) == m.memoryType = "cuda"

\* Lines 198-199: out_cloud->width.
CloudWidth(m) == m.noTotalTriangles * 3

\* Lines 212-222: the index into triangleArray used for output index i.
TriangleIndex(i) == i

\* A release that deletes cpu_triangles whether or not it is a temporary.
DeletesAlways(rm) == TRUE

\* Line 225: whether cpu_triangles is deleted.
DeletesBuffer(rm) == rm

\* The buffer triangleArray points into (line 196).
TriangleArray(e) ==
    IF cpu_triangles[e] = "temp" THEN temp[e].data ELSE mesh[e].triangles

\* The caller invokes extractMeshToPcl(out_cloud).
ExCall(e) ==
    /\ fpc[e] = "idle"
    /\ calls[e] < MaxCalls
    /\ calls' = [calls EXCEPT ![e] = @ + 1]
    /\ \E h \in Handles : handle' = [handle EXCEPT ![e] = h]
    /\ \E oc \in {"null", "cloud"} :
        out_cloud' = [out_cloud EXCEPT ![e] = IF oc = "null" THEN NullCloud ELSE NewCloud]
    /\ meshAtEntry' = [meshAtEntry EXCEPT ![e] = mesh[e]]
    /\ cpu_triangles' = [cpu_triangles EXCEPT ![e] = "none"]
    /\ rm_triangle_in_cuda_memory' = [rm_triangle_in_cuda_memory EXCEPT ![e] = FALSE]
    /\ fi' = [fi EXCEPT ![e] = 0]
    /\ fpc' = [fpc EXCEPT ![e] = "check"]
    /\ UNCHANGED <<scene, mesh, temp, tempAllocs, tempFrees,
                   syncVars, calibVars, pixelVars>>

\* A check that lets every handle through.
CheckSkipped(h) == TRUE

\* Lines 176-177: both main_engine_ and main_engine_->GetMesh() are there.
CheckNotNull(h) == h = "ok"

\* Lines 176-177: CHECK_NOTNULL aborts the process.
ExCheck(e) ==
    /\ fpc[e] = "check"
    /\ fpc' = [fpc EXCEPT ![e] = IF CheckNotNull(handle[e]) THEN "meshScene" ELSE "fatal"]
    /\ UNCHANGED <<scene, mesh, handle, out_cloud, cpu_triangles, temp,
                   rm_triangle_in_cuda_memory, fi, tempAllocs, tempFrees,
                   meshAtEntry, calls,
                   syncVars, calibVars, pixelVars>>

\* Lines 179-180.
ExMeshScene(e) ==
    /\ fpc[e] = "meshScene"
    /\ mesh' = [mesh EXCEPT ![e] = MeshScene(mesh[e], scene)]
    /\ fpc' = [fpc EXCEPT ![e] = "select"]
    /\ UNCHANGED <<scene, handle, out_cloud, cpu_triangles, temp,
                   rm_triangle_in_cuda_memory, fi, tempAllocs, tempFrees,
                   meshAtEntry, calls,
                   syncVars, calibVars, pixelVars>>

\* Lines 185-187 and 192-194: a CUDA mesh gets a new host block of
\* noMaxTriangles entries; a host mesh's own block is used as it is.
ExSelect(e) ==
    /\ fpc[e] = "select"
    /\ IF NeedsHostCopy(mesh[e])
       THEN /\ temp' = [temp EXCEPT ![e] =
                          [data |-> [k \in 1..mesh[e].noMaxTriangles |-> 0],
                           live |-> TRUE]]
            /\ tempAllocs' = [tempAllocs EXCEPT ![e] = @ + 1]
            /\ cpu_triangles' = [cpu_triangles EXCEPT ![e] = "temp"]
            /\ fpc' = [fpc EXCEPT ![e] = "copy"]
       ELSE /\ cpu_triangles' = [cpu_triangles EXCEPT ![e] = "mesh"]
            /\ fpc' = [fpc EXCEPT ![e] = "size"]
            /\ UNCHANGED <<temp, tempAllocs,
                   syncVars, calibVars, pixelVars>>
    /\ UNCHANGED <<scene, mesh, handle, out_cloud, rm_triangle_in_cuda_memory,
                   fi, tempFrees, meshAtEntry, calls,
                   syncVars, calibVars, pixelVars>>

\* Lines 188-191.
ExCopy(e) ==
    /\ fpc[e] = "copy"
    /\ temp' = [temp EXCEPT ![e].data = SetFrom(mesh[e].triangles)]
    /\ rm_triangle_in_cuda_memory' = [rm_triangle_in_cuda_memory EXCEPT ![e] = TRUE]
    /\ fpc' = [fpc EXCEPT ![e] = "size"]
    /\ UNCHANGED <<scene, mesh, handle, out_cloud, cpu_triangles, fi, tempAllocs,
                   tempFrees, meshAtEntry, calls,
                   syncVars, calibVars, pixelVars>>

\* Lines 198-202 with a cloud to write to: width, height, is_dense, resize.
ExSize(e) ==
    /\ fpc[e] = "size"
    /\ ~out_cloud[e].null
    /\ out_cloud' = [out_cloud EXCEPT ![e] =
                       [null |-> FALSE,
                        width |-> CloudWidth(mesh[e]),
                        height |-> 1,
                        is_dense |-> FALSE,
                        points |-> [k \in 1..CloudWidth(mesh[e]) |-> ZeroPoint]]]
    /\ fpc' = [fpc EXCEPT ![e] = "loop"]
    /\ UNCHANGED <<scene, mesh, handle, cpu_triangles, temp,
                   rm_triangle_in_cuda_memory, fi, tempAllocs, tempFrees,
                   meshAtEntry, calls,
                   syncVars, calibVars, pixelVars>>

\* Line 202: points.resize cannot get the memory and throws; the exception
\* leaves extractMeshToPcl at once.
ExSizeThrows(e) ==
    /\ fpc[e] = "size"
    /\ ~out_cloud[e].null
    /\ CloudWidth(mesh[e]) > 0
    /\ out_cloud' = [out_cloud EXCEPT ![e] =
                       [@ EXCEPT !.width = CloudWidth(mesh[e]),
                                 !.height = 1,
                                 !.is_dense = FALSE]]
    /\ fpc' = [fpc EXCEPT ![e] = "error"]
    /\ UNCHANGED <<scene, mesh, handle, cpu_triangles, temp,
                   rm_triangle_in_cuda_memory, fi, tempAllocs, tempFrees,
                   meshAtEntry, calls,
                   syncVars, calibVars, pixelVars>>

\* Line 198 with a null out_cloud: the dereference of a null shared pointer.
ExSizeNull(e) ==
    /\ fpc[e] = "size"
    /\ out_cloud[e].null
    /\ fpc' = [fpc EXCEPT ![e] = "crashed"]
    /\ UNCHANGED <<scene, mesh, handle, out_cloud, cpu_triangles, temp,
                   rm_triangle_in_cuda_memory, fi, tempAllocs, tempFrees,
                   meshAtEntry, calls,
                   syncVars, calibVars, pixelVars>>

\* Lines 212-222, one iteration writing points i, i+1, i+2 from triangle t.
WritePoints(pts, i, t) ==
    [k \in 1..Len(pts) |->
        IF k \in (i + 1)..(i + 3) THEN Vertex(t, k - (i + 1)) ELSE pts[k]]

\* Lines 210-223, one iteration whose read of triangleArray is inside the block.
ExLoop(e) ==
    /\ fpc[e] = "loop"
    /\ fi[e] < mesh[e].noTotalTriangles * 3
    /\ TriangleIndex(fi[e]) < Len(TriangleArray(e))
    /\ out_cloud' = [out_cloud EXCEPT ![e].points =
                       WritePoints(@, fi[e], TriangleArray(e)[TriangleIndex(fi[e]) + 1])]
    /\ fi' = [fi EXCEPT ![e] = @ + 3]
    /\ UNCHANGED <<scene, mesh, handle, cpu_triangles, temp,
                   rm_triangle_in_cuda_memory, fpc, tempAllocs, tempFrees,
                   meshAtEntry, calls,
                   syncVars, calibVars, pixelVars>>

\* Lines 210-223, one iteration whose read of triangleArray is past the end
\* of the block: the read yields whatever lies there.
ExLoopOutOfBlock(e) ==
    /\ fpc[e] = "loop"
    /\ fi[e] < mesh[e].noTotalTriangles * 3
    /\ TriangleIndex(fi[e]) >= Len(TriangleArray(e))
    /\ \E t \in TriVals :
        out_cloud' = [out_cloud EXCEPT ![e].points = WritePoints(@, fi[e], t)]
    /\ fi' = [fi EXCEPT ![e] = @ + 3]
    /\ UNCHANGED <<scene, mesh, handle, cpu_triangles, temp,
                   rm_triangle_in_cuda_memory, fpc, tempAllocs, tempFrees,
                   meshAtEntry, calls,
                   syncVars, calibVars, pixelVars>>

\* The same read faults instead.
ExLoopFault(e) ==
    /\ fpc[e] = "loop"
    /\ fi[e] < mesh[e].noTotalTriangles * 3
    /\ TriangleIndex(fi[e]) >= Len(TriangleArray(e))
    /\ fpc' = [fpc EXCEPT ![e] = "crashed"]
    /\ UNCHANGED <<scene, mesh, handle, out_cloud, cpu_triangles, temp,
                   rm_triangle_in_cuda_memory, fi, tempAllocs, tempFrees,
                   meshAtEntry, calls,
                   syncVars, calibVars, pixelVars>>

\* Line 210: the loop condition fails.
ExLoopEnd(e) ==
    /\ fpc[e] = "loop"
    /\ fi[e] >= mesh[e].noTotalTriangles * 3
    /\ fpc' = [fpc EXCEPT ![e] = "release"]
    /\ UNCHANGED <<scene, mesh, handle, out_cloud, cpu_triangles, temp,
                   rm_triangle_in_cuda_memory, fi, tempAllocs, tempFrees,
                   meshAtEntry, calls,
                   syncVars, calibVars, pixelVars>>

\* Lines 225-227: delete cpu_triangles, whichever block it points to.
ExRelease(e) ==
    /\ fpc[e] = "release"
    /\ IF DeletesBuffer(rm_triangle_in_cuda_memory[e])
       THEN IF cpu_triangles[e] = "temp"
            THEN /\ temp' = [temp EXCEPT ![e].live = FALSE]
                 /\ tempFrees' = [tempFrees EXCEPT ![e] = @ + 1]
                 /\ UNCHANGED mesh
            ELSE /\ mesh' = [mesh EXCEPT ![e].live = FALSE]
                 /\ UNCHANGED <<temp, tempFrees>>
       ELSE UNCHANGED <<mesh, temp, tempFrees>>
    /\ fpc' = [fpc EXCEPT ![e] = "done"]
    /\ UNCHANGED <<scene, handle, out_cloud, cpu_triangles,
                   rm_triangle_in_cuda_memory, fi, tempAllocs, meshAtEntry, calls,
                   syncVars, calibVars, pixelVars>>

\* Line 228, or the exception reaching the caller: the call is over.
ExReturn(e) ==
    /\ fpc[e] \in {"done", "error"}
    /\ fpc' = [fpc EXCEPT ![e] = "idle"]
    /\ UNCHANGED <<scene, mesh, handle, out_cloud, cpu_triangles, temp,
                   rm_triangle_in_cuda_memory, fi, tempAllocs, tempFrees,
                   meshAtEntry, calls,
                   syncVars, calibVars, pixelVars>>

\* extractMeshToPcl on the engine whose mesh lives in domain e.
extractMeshToPclOn(e) ==
    \/ ExCall(e)
    \/ ExCheck(e)
    \/ ExMeshScene(e)
    \/ ExSelect(e)
    \/ ExCopy(e)
    \/ ExSize(e)
    \/ ExSizeThrows(e)
    \/ ExSizeNull(e)
    \/ ExLoop(e)
    \/ ExLoopOutOfBlock(e)
    \/ ExLoopFault(e)
    \/ ExLoopEnd(e)
    \/ ExRelease(e)
    \/ ExReturn(e)

extractMeshToPcl == \E e \in Domains : extractMeshToPclOn(e)

\* =================================================================
\* Depth decoding
\* =================================================================

\* Line 137: the shift distance of << 8.
ByteShift == 8

\* Line 137: 0xFF00.
HighByteMask == 65280

\* Line 138: 0xFF.
LowByteMask == 255

\* Line 130: raw_depth_infinitam is a short*, 16 bits wide.
ShortBits == 16

\* image.data is an array of unsigned char.
Bytes == 0..(2^ByteShift - 1)

RECURSIVE BitAnd(_, _)
\* x & y on non-negative ints.
BitAnd(x, y) ==
    IF x = 0 \/ y = 0 THEN 0
    ELSE (x % 2) * (y % 2) + 2 * BitAnd(x \div 2, y \div 2)

RECURSIVE BitOr(_, _)
\* x | y on non-negative ints.
BitOr(x, y) ==
    IF x = 0 THEN y
    ELSE IF y = 0 THEN x
    ELSE (IF x % 2 = 1 \/ y % 2 = 1 THEN 1 ELSE 0) + 2 * BitOr(x \div 2, y \div 2)

\* The int-to-short conversion of the assignment at line 136: the value
\* modulo 2^16, read as two's complement.
ToShort(v) ==
    LET w == v % (2^ShortBits)
    IN  IF w >= 2^(ShortBits - 1) THEN w - 2^ShortBits ELSE w

\* Lines 136-138, the right-hand side, computed in int after promotion.
DepthWord(lo, hi) ==
    BitOr(BitAnd(hi * 2^ByteShift, HighByteMask), BitAnd(lo, LowByteMask))

\* No pixel is being decoded.
InitPixelIdle ==
    /\ data = <<0, 0>>
    /\ raw_depth_infinitam = 0
    /\ dpc = "idle"

\* One pixel of the depth image about to be decoded: any two bytes.
InitPixel ==
    /\ data \in Bytes \X Bytes
    /\ raw_depth_infinitam = 0
    /\ dpc = "decode"

\* Lines 136-138 for one i: raw_depth_infinitam[i] = ... data[2*i + 1] ...
\* data[2*i] ...
DecodeDepth ==
    /\ dpc = "decode"
    /\ raw_depth_infinitam' = ToShort(DepthWord(data[1], data[2]))
    /\ dpc' = "done"
    /\ UNCHANGED <<data, syncVars, calibVars, meshVars>>

\* =================================================================
\* Specifications
\* =================================================================

NextSync == rgbCallback \/ depthCallback \/ hasMoreImages \/ getImages

InitSyncOnly == InitSync /\ InitCalib /\ InitMeshWith(0) /\ InitPixelIdle

SpecSync == InitSyncOnly /\ [][NextSync]_vars

\* The hand-off with both topics delivering for ever and every thread
\* running: each callback is called again and again and runs on whenever it
\* is not waiting for its mutex; the consumer keeps calling hasMoreImages,
\* and getImages after a true.
NextSyncAgain ==
    \/ CallbackAgain("rgb")
    \/ CallbackAgain("depth")
    \/ hasMoreImages
    \/ getImages

InitSyncAgain == InitSync /\ InitCalib /\ InitMeshWith(0) /\ InitPixelIdle

SpecSyncFair ==
    /\ InitSyncAgain
    /\ [][NextSyncAgain]_vars
    /\ \A s \in Slots : WF_vars(CallbackAgain(s))
    /\ WF_vars(hasMoreImages \/ getImages)

NextCalib == rgbCameraInfoCallback \/ depthCameraInfoCallback \/ RosEngine

InitCalibOnly == InitSync /\ InitCalib /\ InitMeshWith(0) /\ InitPixelIdle

SpecCalib == InitCalibOnly /\ [][NextCalib]_vars

\* The constructor's thread keeps running (the loop of lines 46-50 sleeps one
\* second and goes on), and a callback that has been entered runs to its
\* end.  Whether a camera-info message is ever delivered is left open.
SpecCalibFair ==
    /\ SpecCalib
    /\ WF_vars(RosEngine)
    /\ \A s \in Slots : WF_vars(InfoStore(s) \/ InfoFlag(s))

NextMesh == extractMeshToPcl

InitMeshOnly == InitSync /\ InitCalib /\ InitMesh /\ InitPixelIdle

SpecMesh == InitMeshOnly /\ [][NextMesh]_vars

\* The export service (publishMap, lines 230-243, advertised at line 53) of
\* an engine with a CUDA mesh, running next to the frame hand-off of the
\* same object; the scene holds one triangle less than the mesh can take.
NextExport == NextSync \/ extractMeshToPclOn("cuda")

InitExport == InitSync /\ InitCalib /\ InitMeshWith(MaxCap - 1) /\ InitPixelIdle

SpecExport == InitExport /\ [][NextExport]_vars

\* The depth loop of getImages (lines 135-139) on one pixel.
NextDecode == DecodeDepth

InitDecode == InitSync /\ InitCalib /\ InitMeshWith(0) /\ InitPixel

SpecDecode == InitDecode /\ [][NextDecode]_vars

\* =================================================================
\* Properties of the frame hand-off (SpecSync)
\* =================================================================

AfterCopy(s) ==
    IF s = "depth"
    THEN {"lockRgb", "copyRgb1", "copyRgb2", "clearRgb", "clearDepth", "open", "return"}
    ELSE {"clearRgb", "clearDepth", "open", "return"}

\* Positions of the consumer between its reset of a slot's flag and its return.
AfterClear(s) ==
    IF s = "depth" THEN {"open", "return"} ELSE {"clearDepth", "open", "return"}

C3_NoProducerEffectWhileGateClosed ==
    [][~data_available_ =>
          /\ image' = image
          /\ \A s \in Slots : ready'[s] => ready[s]]_vars

\* C4: a slot whose ready flag is true holds the admitted frame, completely
\* stored, and no callback is about to store into it.
C4_ReadyImpliesFrameComplete ==
    \A s \in Slots : ready[s] => (image[s] = acceptedId[s] /\ cbpc[s] # "store")

\* A callback passes its precondition, takes the mutex or sets the flag.
StartsWrite(s) ==
    \/ cbpc[s] = "gate" /\ cbpc'[s] = "lock"
    \/ cbpc[s] = "lock" /\ cbpc'[s] = "flag"
    \/ cbpc[s] = "flag" /\ cbpc'[s] = "store"

\* C5: data_available_ is false exactly while the consumer is between lines
\* 126 and 160 of getImages; while it is true the consumer holds no mutex and
\* is neither copying nor resetting a slot; while it is false no callback
\* starts a write.
C5_GateOwnership ==
    /\ [](/\ data_available_ <=> ~Draining
          /\ data_available_ =>
                \A s \in Slots : mutex[s] = "consumer" => cpc = "return")
    /\ [][~data_available_ => \A s \in Slots : ~StartsWrite(s)]_vars

\* A callback evaluates the gate while the consumer drains its second pair.
C5_Witness ==
    Draining /\ cbpc["depth"] = "gate" /\ acceptedAtRead["rgb"] > 0

\* =================================================================
\* Properties of extractMeshToPcl (SpecMesh)
\* =================================================================

\* C6: a completed call on a mesh of N triangles leaves exactly 3*N points,
\* and point 3*k+j is vertex j of triangle k, for every k < N and j < 3.
C6_FlattenInTriangleOrder ==
    \A e \in Domains :
        fpc[e] = "done" =>
            /\ Len(out_cloud[e].points) = 3 * mesh[e].noTotalTriangles
            /\ \A k \in 0..(mesh[e].noTotalTriangles - 1) : \A j \in 0..2 :
                  out_cloud[e].points[3 * k + j + 1]
                      = Vertex(mesh[e].triangles[k + 1], j)

\* C7: two completed calls, one on the host mesh and one on the CUDA mesh,
\* with the same triangle data and count, leave the same point cloud.
C7_SameCloudOnBothDomains ==
    ( /\ fpc["cpu"] = "done"
      /\ fpc["cuda"] = "done"
      /\ mesh["cpu"].triangles = mesh["cuda"].triangles
      /\ mesh["cpu"].noTotalTriangles = mesh["cuda"].noTotalTriangles )
    => out_cloud["cpu"] = out_cloud["cuda"]

C9_TempReleasedOnEveryExit ==
    \A e \in Domains :
        fpc[e] \in {"done", "error"} =>
            /\ tempAllocs[e] = tempFrees[e]
            /\ mesh[e].live
            /\ e = "cpu" => tempAllocs[e] = 0

\* =================================================================
\* Properties of the calibration callbacks (SpecCalib)
\* =================================================================

\* C10: a modality's received flag never goes back to false; both flags are
\* true only after each modality's parameters have been assigned at least
\* once, and stay true from then on; a callback that has run to its end
\* leaves the flag true and the stored parameters equal to its own message,
\* whatever was stored before.
C10_CalibrationLatch ==
    /\ [](CalibrationComplete => \A s \in Slots : recorded[s] >= 1)
    /\ [](\A s \in Slots :
            (infopc[s] = "idle" /\ infoDelivered[s] >= 1) =>
                /\ info_ready[s]
                /\ info[s] = infomsg[s]
                /\ image_size[s] = infomsg[s])
    /\ [][\A s \in Slots : info_ready[s] => info_ready'[s]]_vars
    /\ [][CalibrationComplete => CalibrationComplete']_vars

\* Calibration is complete and a repeated rgb callback has run to its end.
C10_Witness ==
    /\ CalibrationComplete
    /\ recorded["rgb"] >= 2
    /\ infopc["rgb"] = "idle"

\* The constructor is past the loop of lines 46-50.
PastWait == ctorpc \in {"depthCalib", "rgbCalib", "done"}

\* C11: the constructor does not get past its wait loop, and does not read
\* the stored intrinsics into the calibration, until the colour and the depth
\* parameters have both been recorded; once both have been recorded the
\* constructor runs to its end, and while one of them is never recorded it
\* stays in the loop.
C11_AwaitComplete ==
    /\ [](PastWait => \A s \in Slots : recorded[s] >= 1 /\ info_ready[s])
    /\ [](\A s \in Slots :
            calib[s] # <<0, 0>> =>
                /\ \A r \in Slots : recorded[r] >= 1
                /\ calib[s][1] \in InfoVals
                /\ calib[s][2] \in InfoVals)
    /\ ((\A s \in Slots : recorded[s] >= 1) ~> (ctorpc = "done"))
    /\ \A s \in Slots : [](recorded[s] = 0) => [](~PastWait)

\* The loop has been left after both callbacks ran, and both calibrations
\* have been built from the recorded parameters.
C11_Witness ==
    /\ ctorpc = "done"
    /\ \A s \in Slots : recorded[s] >= 1 /\ calib[s][1] = info[s]

\* =================================================================
\* Properties of the export next to the frame hand-off (SpecExport)
\* =================================================================

\* A step of an export whose engine handle or mesh is missing: the call
\* itself, or the failing check of lines 176-177.
FailedExportStep(e) ==
    /\ handle'[e] \in {"noEngine", "noMesh"}
    /\ fpc'[e] # fpc[e]
    /\ fpc'[e] \in {"check", "fatal"}

\* C12: an export called while the engine handle or its mesh is missing ends
\* in the fatal check of lines 176-177 and nowhere else: nothing has been
\* allocated, the mesh has not been re-meshed or read, the caller's point
\* cloud is as it was passed in; no step of such an export changes the mesh,
\* a slot's ready flag or content, or the gate.
C12_FailedExportChangesNothing ==
    /\ [](\A e \in Domains :
            handle[e] \in {"noEngine", "noMesh"} => fpc[e] \in {"check", "fatal"})
    /\ [](\A e \in Domains :
            fpc[e] = "fatal" =>
                /\ handle[e] \in {"noEngine", "noMesh"}
                /\ mesh[e] = meshAtEntry[e]
                /\ cpu_triangles[e] = "none"
                /\ ~rm_triangle_in_cuda_memory[e]
                /\ fi[e] = 0
                /\ out_cloud[e] \in {NullCloud, NewCloud})
    /\ [][\A e \in Domains :
            FailedExportStep(e) =>
                UNCHANGED <<mesh, scene, temp, tempAllocs, tempFrees,
                            ready, image, data_available_, mutex, dest>>]_vars

\* An export has failed on a missing mesh while a colour frame was waiting
\* in its slot and the consumer was reading a pair behind the closed gate.
C12_Witness ==
    /\ fpc["cuda"] = "fatal"
    /\ handle["cuda"] = "noMesh"
    /\ ready["rgb"]
    /\ image["rgb"] # 0
    /\ ~data_available_

\* =================================================================
\* Properties of the depth decoding (SpecDecode)
\* =================================================================

\* C13: for every pair of source bytes the decoded depth sample is the
\* unsigned 16-bit value data[2*i] + 256 * data[2*i + 1], also when the high
\* byte is 0x80 or more.
C13_DepthSampleUnsigned ==
    dpc = "done" => raw_depth_infinitam = data[1] + 256 * data[2]

\* =================================================================
\* Properties of the locking and of the pair read (SpecSync)
\* =================================================================

\* Inside the pair read, a ready flag has been reset (line 158) and the gate
\* has not yet been reopened (line 160).
HalfReset == cpc \in {"clearDepth", "open"}

\* The callback of slot s reads its ready flag (line 82 / 92) and finds it
\* reset.
SeesReset(s) == cbpc[s] = "idle" /\ cbpc'[s] = "gate"

\* C14: the window of a pair read is indivisible to the producers: no
\* callback reads a ready flag as reset while only one flag has been reset
\* or while the gate is still closed.
C14_DrainingIndivisible ==
    [][\A s \in Slots : SeesReset(s) => ~HalfReset]_vars

\* The callback of slot s is blocked at its lock_guard (line 83 / 93).
ProducerWaits(s) == cbpc[s] = "lock" /\ mutex[s] # "free"

\* The consumer is blocked at the lock_guard of slot s (line 129 / 142).
ConsumerWaits(s) ==
    /\ cpc = (IF s = "depth" THEN "lockDepth" ELSE "lockRgb")
    /\ mutex[s] # "free"

\* C15: the two producers never block each other, directly or through the
\* consumer: a waiting callback waits for the consumer only, and it never
\* waits for a consumer that is itself waiting for the other slot's lock
\* held by the other callback.
C15_ProducersNeverBlockEachOther ==
    /\ \A s \in Slots : ProducerWaits(s) => mutex[s] = "consumer"
    /\ \A s \in Slots : \A t \in Slots \ {s} :
        ~(ProducerWaits(s) /\ ConsumerWaits(t) /\ mutex[t] = "producer")

\* The consumer holds the depth lock and waits for the colour lock, which
\* the colour callback holds: whoever waited for the depth lock now would
\* wait for the colour callback.
C15_Witness ==
    /\ ConsumerWaits("rgb")
    /\ mutex["rgb"] = "producer"
    /\ mutex["depth"] = "consumer"
    /\ delivered["depth"] >= 2

\* The consumer is in hasMoreImages, or in getImages before line 129.
OutsideGuards == cpc \in {"pollRgb", "pollDepth", "spin", "enter", "close"}

\* C16: no process waits for a lock whose holder is itself waiting: the
\* consumer waits only for a callback that is past its lock_guard, a
\* callback waits only for a consumer that is not waiting; the consumer holds
\* no slot lock in hasMoreImages, so a callback that runs during the
\* spinOnce of a failed poll finds its mutex free of the consumer and takes
\* it.
C16_DeadlockFree ==
    /\ \A s \in Slots :
        ConsumerWaits(s) =>
            /\ mutex[s] = "producer"
            /\ cbpc[s] \in {"flag", "store", "unlock"}
    /\ \A s \in Slots :
        ProducerWaits(s) =>
            /\ mutex[s] = "consumer"
            /\ \A t \in Slots : ~ConsumerWaits(t)
    /\ OutsideGuards => \A s \in Slots : mutex[s] # "consumer"
    /\ \A s \in Slots :
        (cpc = "spin" /\ cbpc[s] = "lock") => mutex[s] = "free"

\* During the spinOnce of a failed poll the colour callback is at its
\* lock_guard while the depth callback is inside its own.
C16_Witness ==
    /\ cpc = "spin"
    /\ cbpc["rgb"] = "lock"
    /\ cbpc["depth"] = "store"

\* The callback of slot s admits its frame (line 84 / 94).
Accepts(s) == acceptedId'[s] # acceptedId[s]

\* The frame last admitted to slot s has been copied out in full by a
\* getImages that has returned (or no frame was admitted yet).
Consumed(s) ==
    /\ acceptedAtRead[s] = acceptedId[s]
    /\ dest[s] = <<acceptedId[s], acceptedId[s]>>

\* C17: a frame admitted to a slot is not replaced before it has been
\* consumed: when a callback admits a frame, and when it stores one over the
\* slot's image, the frame admitted before has been copied out by a
\* completed getImages; frames are admitted in the order of their delivery,
\* every other frame is dropped.
C17_NoOverwriteBeforeConsumed ==
    /\ [][\A s \in Slots :
            Accepts(s) =>
                /\ Consumed(s)
                /\ acceptedId'[s] > acceptedId[s]
                /\ acceptedId'[s] = cbmsg[s]]_vars
    /\ [][\A s \in Slots :
            image'[s] # image[s] =>
                /\ image[s] = 0 \/ Stale(s)
                /\ image'[s] = acceptedId[s]]_vars
    /\ [](\A s \in Slots : image[s] <= acceptedId[s])

\* The colour slot took frame 1, dropped frame 2 while frame 1 was pending
\* and took frame 3 after frame 1 had been read.
C17_Witness ==
    /\ acceptedId["rgb"] = 3
    /\ image["rgb"] = 3
    /\ dest["rgb"] = <<1, 1>>

\* getImages copies pixels of slot s (lines 135-139 / 149-156).
Copies(s) == dest'[s] # dest[s]

LoopIteration(e) ==
    fpc[e] = "loop" /\ fi[e] < mesh[e].noTotalTriangles * 3

\* C19: in every iteration the index read from triangleArray is smaller
\* than noTotalTriangles and inside the block, and the largest index written
\* to out_cloud->points is smaller than 3 * noTotalTriangles.
C19_IndicesInRange ==
    \A e \in Domains :
        LoopIteration(e) =>
            /\ TriangleIndex(fi[e]) < mesh[e].noTotalTriangles
            /\ TriangleIndex(fi[e]) < Len(TriangleArray(e))
            /\ fi[e] + 2 < 3 * mesh[e].noTotalTriangles
            /\ fi[e] + 2 < Len(out_cloud[e].points)

\* =================================================================
\* Progress of the hand-off (SpecSyncFair)
\* =================================================================

\* getImages is at its return with the state it leaves behind.
PairDelivered ==
    /\ cpc = "return"
    /\ \A s \in Slots : ~ready[s]
    /\ data_available_

\* C20: with both topics delivering and every thread running, pairs are
\* read again and again; a getImages that has closed the gate reaches its
\* return with both ready flags false and the gate open; the gate is never
\* closed for good, and a slot that is ready is joined by the other slot.
C20_PairsConsumedForEver ==
    /\ []<>(cpc = "return")
    /\ ((cpc = "close") ~> PairDelivered)
    /\ (Draining ~> PairDelivered)
    /\ []<>data_available_
    /\ \A s \in Slots : \A t \in Slots \ {s} :
        (ready[s] /\ ~ready[t]) ~> ready[t]

\* A pair is read after the frame numbers have gone round: the pair before
\* it was the last of the round, this one is the first of the next.
C20_Witness ==
    /\ PairDelivered
    /\ \A s \in Slots : acceptedAtRead[s] = MaxFrames /\ dest[s] = <<1, 1>>

====
